---- MODULE Spec2Model ----
(***************************************************************************)
(* Extended private keys (libbitcoin::system::wallet::hd_private), from    *)
(* src/src/wallet/keys/hd_private.cpp.                                     *)
(*                                                                         *)
(* Data are sequences of bytes.  A uint32_t is the record [hi, lo] of its  *)
(* two 16-bit halves (a 32-bit value does not fit the model's integers),   *)
(* a uint64_t prefixes value is the pair of its two 32-bit words.  Hashes, *)
(* secrets and chain codes are HashLen bytes long instead of 32, and the   *)
(* curve order is scaled with them.  The hash and curve primitives are     *)
(* deterministic stand-ins: the model relies on their being functions and  *)
(* on the scalar range, not on their cryptographic strength.               *)
(***************************************************************************)
EXTENDS Integers, Sequences, FiniteSets, TLC

\* ------------------------------------------------------------------ bounds

\* Bytes of a hash, a secret and a chain code (hash_size is 32 in the code).
HashLen == 1

\* Most derive_private calls in one run.
MaxDerive == 1

\* Concurrent callers of derive_private on one parent.
NumCallers == 2

\* ------------------------------------------------------------------- bytes

Byte == 0 .. 255

RECURSIVE Repeat(_, _)
Repeat(b, n) == IF n = 0 THEN << >> ELSE <<b>> \o Repeat(b, n - 1)

RECURSIVE Pow(_, _)
Pow(b, n) == IF n = 0 THEN 1 ELSE b * Pow(b, n - 1)

\* The big-endian number of a byte sequence, and back (len bytes).
RECURSIVE Num(_)
Num(bytes) ==
    IF bytes = << >> THEN 0
    ELSE Num(SubSeq(bytes, 1, Len(bytes) - 1)) * 256 + bytes[Len(bytes)]

RECURSIVE Bytes(_, _)
Bytes(n, len) ==
    IF len = 0 THEN << >> ELSE Bytes(n \div 256, len - 1) \o <<n % 256>>

slice(data, from, to) == SubSeq(data, from + 1, to)

\* uint32_t as two 16-bit halves.
Word(hi, lo) == [hi |-> hi, lo |-> lo]

to_big_endian(w) == <<w.hi \div 256, w.hi % 256, w.lo \div 256, w.lo % 256>>

from_big_endian(data) ==
    Word(data[1] * 256 + data[2], data[3] * 256 + data[4])

zero_word == Word(0, 0)

\* index >= hd_first_hardened_key (0x80000000): the top bit of the word.
is_hardened(index) == index.hi >= 32768

\* uint64_t prefixes: (private version << 32) | public version.
to_prefixes(private_prefix, public_prefix) == <<private_prefix, public_prefix>>

\* prefixes >> 32
to_prefix(prefixes) == prefixes[1]

hd_public_mainnet == Word(1160, 45598)
hd_public_testnet == Word(1077, 34767)
hd_private_mainnet == to_prefixes(Word(1160, 44516), hd_public_mainnet)
hd_private_testnet == to_prefixes(Word(1077, 33684), hd_public_testnet)

\* -------------------------------------------------- stand-in primitives

\* A deterministic digest of len bytes, salted per primitive.
RECURSIVE Absorb(_, _)
Absorb(h, data) ==
    IF data = << >> THEN h
    ELSE Absorb((h * 33 + Head(data) + 1) % 65521, Tail(data))

Squeeze(h, len) ==
    [k \in 1 .. len |-> (((h + 131 * k) * (2 * k + 1)) % 65521) % 256]

\* hmac_sha512_hash(data, key): 64 bytes in the code, two hashes' worth here.
hmac_sha512_hash(data, key) ==
    Squeeze(Absorb(Absorb(17, key), data), 2 * HashLen)

\* split: the two halves of the keyed hash.
split(hash) ==
    [first |-> SubSeq(hash, 1, HashLen),
     second |-> SubSeq(hash, HashLen + 1, 2 * HashLen)]

checksum_size == Len(to_big_endian(zero_word))

\* The first four bytes of the double hash of the data.
bitcoin_checksum(data) == Squeeze(Absorb(4099, data), checksum_size)

insert_checksum(payload) == payload \o bitcoin_checksum(payload)

\* The order of the curve group, scaled to HashLen bytes.
ec_order == Pow(256, HashLen) - 5

null_hash == Repeat(0, HashLen)

null_compressed_point == Repeat(0, HashLen + 1)

\* verify(secret): 0 < secret < n.
verify(secret) == Num(secret) > 0 /\ Num(secret) < ec_order

\* secret_to_public: the compressed point of a valid secret.
secret_to_public(secret) ==
    [ok |-> verify(secret),
     point |-> IF verify(secret)
               THEN <<2 + (Absorb(7, secret) % 2)>>
                        \o Squeeze(Absorb(911, secret), HashLen)
               ELSE null_compressed_point]

\* ec_add(left, right): left := (left + right) mod n; fails when right >= n
\* or the sum is zero.
ec_add(left, right) ==
    LET sum == (Num(left) + Num(right)) % ec_order
    IN  [ok |-> Num(right) < ec_order /\ sum # 0,
         value |-> Bytes(sum, HashLen)]

\* bitcoin_short_hash of the point, its first four bytes.
bitcoin_short_hash(point) == Squeeze(Absorb(257, point), 4)

\* ---------------------------------------------------------------- base 58

base58_chars ==
    << "1", "2", "3", "4", "5", "6", "7", "8", "9", "A", "B", "C", "D", "E",
       "F", "G", "H", "J", "K", "L", "M", "N", "P", "Q", "R", "S", "T", "U",
       "V", "W", "X", "Y", "Z", "a", "b", "c", "d", "e", "f", "g", "h", "i",
       "j", "k", "m", "n", "o", "p", "q", "r", "s", "t", "u", "v", "w", "x",
       "y", "z" >>

\* The value of each character of the alphabet.
base58_value ==
    [ch \in {base58_chars[d] : d \in 1 .. Len(base58_chars)} |->
        (CHOOSE d \in 1 .. Len(base58_chars) : base58_chars[d] = ch) - 1]

is_base58(ch) == ch \in DOMAIN base58_value

base58_digit(ch) == base58_value[ch]

RECURSIVE leading(_, _)
leading(seq, x) ==
    IF seq # << >> /\ Head(seq) = x THEN 1 + leading(Tail(seq), x) ELSE 0

RECURSIVE strip(_, _)
strip(seq, x) ==
    IF seq # << >> /\ Head(seq) = x THEN strip(Tail(seq), x) ELSE seq

\* Long division of a big-endian number by 58: quotient bytes and remainder.
RECURSIVE divide58(_, _, _)
divide58(data, quotient, carry) ==
    IF data = << >> THEN [q |-> quotient, r |-> carry]
    ELSE LET value == carry * 256 + Head(data)
         IN  divide58(Tail(data), quotient \o <<value \div 58>>, value % 58)

RECURSIVE base58_digits(_)
base58_digits(number) ==
    IF number = << >> THEN << >>
    ELSE LET d == divide58(number, << >>, 0)
         IN  base58_digits(strip(d.q, 0)) \o <<base58_chars[d.r + 1]>>

\* encode_base58: a "1" for each leading zero byte, then the number's digits.
encode_base58(data) ==
    Repeat("1", leading(data, 0)) \o base58_digits(strip(data, 0))

\* number * 58 + digit, least significant byte last.
RECURSIVE multiply58(_, _)
multiply58(number, carry) ==
    IF number = << >>
    THEN (IF carry = 0 THEN << >> ELSE <<carry>>)
    ELSE LET value == number[Len(number)] * 58 + carry
         IN  multiply58(SubSeq(number, 1, Len(number) - 1), value \div 256)
                 \o <<value % 256>>

RECURSIVE base58_number(_, _)
base58_number(text, number) ==
    IF text = << >> THEN number
    ELSE base58_number(Tail(text), multiply58(number, base58_digit(Head(text))))

\* decode_base58 to a chunk: fails on a character outside the alphabet.
decode_base58_chunk(text) ==
    IF \A i \in 1 .. Len(text) : is_base58(text[i])
    THEN [ok |-> TRUE,
          data |-> Repeat(0, leading(text, "1"))
                       \o base58_number(strip(text, "1"), << >>)]
    ELSE [ok |-> FALSE, data |-> << >>]

\* decode_base58 to an array of size bytes: fails when the size differs.
decode_base58(text, size) ==
    LET chunk == decode_base58_chunk(text)
    IN  IF chunk.ok /\ Len(chunk.data) = size
        THEN chunk
        ELSE [ok |-> FALSE, data |-> << >>]

\* ------------------------------------------------------------- the keys

max_uint8 == Pow(2, 8) - 1

\* static_cast<uint8_t>(add1(depth))
add1_uint8(depth) == (depth + 1) % Pow(2, 8)

hd_lineage(prefixes, depth, parent_fingerprint, child_number) ==
    [prefixes |-> prefixes, depth |-> depth,
     parent_fingerprint |-> parent_fingerprint,
     child_number |-> child_number]

\* hd_public(): the invalid key, all fields zero.
hd_public_default ==
    [valid |-> FALSE, chain |-> null_hash,
     lineage |-> hd_lineage(to_prefixes(zero_word, zero_word), 0,
                            zero_word, zero_word),
     point |-> null_compressed_point]

\* hd_public::from_secret: the public key of the secret, or the invalid key.
from_secret(secret, chain_code, lineage) ==
    LET public == secret_to_public(secret)
    IN  IF public.ok
        THEN [valid |-> TRUE, chain |-> chain_code, lineage |-> lineage,
              point |-> public.point]
        ELSE hd_public_default

\* An hd_private is its hd_public base and secret_.
with_secret(base, secret) ==
    [valid |-> base.valid, chain |-> base.chain, lineage |-> base.lineage,
     point |-> base.point, secret |-> secret]

\* The hd_public base of an hd_private (the slice of the object).
hd_public_of(key) ==
    [valid |-> key.valid, chain |-> key.chain, lineage |-> key.lineage,
     point |-> key.point]

\* hd_private()
hd_private_default == with_secret(hd_public_default, null_hash)

\* hd_private(secret, chain_code, lineage), the private constructor.
hd_private_lineage(secret, chain_code, lineage) ==
    with_secret(from_secret(secret, chain_code, lineage), secret)

from_private(secret, chain_code, prefixes) ==
    IF ~verify(secret)
    THEN hd_private_default
    ELSE hd_private_lineage(secret, chain_code,
                            hd_lineage(prefixes, 0, zero_word, zero_word))

\* hd_private(secret, chain_code, prefixes)
hd_private_prefixes(secret, chain_code, prefixes) ==
    with_secret(hd_public_of(from_private(secret, chain_code, prefixes)),
                secret)

\* to_chunk("Bitcoin seed")
magic == <<66, 105, 116, 99, 111, 105, 110, 32, 115, 101, 101, 100>>

\* from_entropy with the halves of the hash exchanged.
from_entropy_exchanged(entropy, prefixes) ==
    LET intermediate == split(hmac_sha512_hash(entropy, magic))
    IN  hd_private_prefixes(intermediate.second, intermediate.first, prefixes)

from_entropy(entropy, prefixes) ==
    LET intermediate == split(hmac_sha512_hash(entropy, magic))
    IN  hd_private_prefixes(intermediate.first, intermediate.second, prefixes)

\* The size of a checksummed key: 82 bytes in the code.
hd_key_size == 4 + 1 + 4 + 4 + HashLen + 1 + HashLen + checksum_size

\* from_key with the parent and the child of the lineage exchanged.
from_key_exchanged(key, prefixes) ==
    LET prefix == from_big_endian(slice(key, 0, 4))
        depth  == key[5]
        parent == from_big_endian(slice(key, 5, 9))
        child  == from_big_endian(slice(key, 9, 13))
        chain  == slice(key, 13, 13 + HashLen)
        secret == slice(key, 14 + HashLen, 14 + 2 * HashLen)
    IN  IF prefix # to_prefix(prefixes)
        THEN hd_private_default
        ELSE hd_private_lineage(secret, chain,
                                hd_lineage(prefixes, depth, child, parent))

\* from_key without the validation of the prefix.
from_key_unvalidated(key, prefixes) ==
    LET depth  == key[5]
        parent == from_big_endian(slice(key, 5, 9))
        child  == from_big_endian(slice(key, 9, 13))
        chain  == slice(key, 13, 13 + HashLen)
        secret == slice(key, 14 + HashLen, 14 + 2 * HashLen)
    IN  hd_private_lineage(secret, chain,
                           hd_lineage(prefixes, depth, parent, child))

\* from_key(key, prefixes): the reader takes the fields in order.
from_key(key, prefixes) ==
    LET prefix == from_big_endian(slice(key, 0, 4))
        depth  == key[5]
        parent == from_big_endian(slice(key, 5, 9))
        child  == from_big_endian(slice(key, 9, 13))
        chain  == slice(key, 13, 13 + HashLen)
        secret == slice(key, 14 + HashLen, 14 + 2 * HashLen)
    IN  IF prefix # to_prefix(prefixes)
        THEN hd_private_default
        ELSE hd_private_lineage(secret, chain,
                                hd_lineage(prefixes, depth, parent, child))

\* from_key(key, public_prefix): reads the private version from the key.
from_key_public(key, public_prefix) ==
    LET prefix == from_big_endian(key)
    IN  from_key(key, to_prefixes(prefix, public_prefix))

\* from_string(encoded, public_prefix)
from_string_public(encoded, public_prefix) ==
    LET key == decode_base58(encoded, hd_key_size)
    IN  IF ~key.ok
        THEN hd_private_default
        ELSE from_key_public(key.data, public_prefix)

\* from_string(encoded, prefixes)
from_string(encoded, prefixes) ==
    LET key == decode_base58(encoded, hd_key_size)
    IN  IF key.ok THEN from_key(key.data, prefixes) ELSE hd_private_default

to_hd_key(key) ==
    insert_checksum(
        to_big_endian(to_prefix(key.lineage.prefixes))
            \o <<key.lineage.depth>>
            \o to_big_endian(key.lineage.parent_fingerprint)
            \o to_big_endian(key.lineage.child_number)
            \o key.chain
            \o <<0>>
            \o key.secret)

encoded(key) == encode_base58(to_hd_key(key))

\* hd_public::fingerprint: the short hash of the point as a big-endian word.
fingerprint(key) == from_big_endian(bitcoin_short_hash(key.point))

\* derive_private without the check of the depth.
derive_private_unbounded(key, index) ==
    LET data == IF is_hardened(index)
                THEN <<0>> \o key.secret \o to_big_endian(index)
                ELSE key.point \o to_big_endian(index)
        intermediate == split(hmac_sha512_hash(data, key.chain))
        child == ec_add(key.secret, intermediate.first)
    IN  IF ~child.ok
        THEN hd_private_default
        ELSE hd_private_lineage(
                 child.value, intermediate.second,
                 hd_lineage(key.lineage.prefixes,
                            add1_uint8(key.lineage.depth),
                            fingerprint(key), index))

\* derive_private that keeps the child number of the parent.
derive_private_same_number(key, index) ==
    LET data == IF is_hardened(index)
                THEN <<0>> \o key.secret \o to_big_endian(index)
                ELSE key.point \o to_big_endian(index)
        intermediate == split(hmac_sha512_hash(data, key.chain))
        child == ec_add(key.secret, intermediate.first)
    IN  IF ~child.ok
        THEN hd_private_default
        ELSE IF key.lineage.depth = max_uint8
        THEN hd_private_default
        ELSE hd_private_lineage(
                 child.value, intermediate.second,
                 hd_lineage(key.lineage.prefixes,
                            add1_uint8(key.lineage.depth),
                            fingerprint(key), key.lineage.child_number))

\* derive_data that hashes the point for a hardened child too.
derive_data_point(key, index) == key.point \o to_big_endian(index)

\* The data derive_private hashes: the secret of a hardened child, the
\* point of a normal one, then the index.
derive_data(key, index) ==
    IF is_hardened(index)
    THEN <<0>> \o key.secret \o to_big_endian(index)
    ELSE key.point \o to_big_endian(index)

\* The halves of the keyed hash of the data under the parent's chain code.
derive_intermediate(key, index) ==
    split(hmac_sha512_hash(derive_data(key, index), key.chain))

\* The child secret: the parent's plus the left half, modulo the order.
derive_child(key, intermediate) == ec_add(key.secret, intermediate.first)

\* The child key, once the sum has succeeded.
derive_lineage(key, index, intermediate, child) ==
    IF key.lineage.depth = max_uint8
    THEN hd_private_default
    ELSE hd_private_lineage(
             child, intermediate.second,
             hd_lineage(key.lineage.prefixes,
                        add1_uint8(key.lineage.depth),
                        fingerprint(key), index))

derive_private(key, index) ==
    LET intermediate == derive_intermediate(key, index)
        child == derive_child(key, intermediate)
    IN  IF ~child.ok
        THEN hd_private_default
        ELSE derive_lineage(key, index, intermediate, child.value)

\* hd_public::to_prefix: the public version, the low word of the prefixes.
hd_public_to_prefix(prefixes) == prefixes[2]

\* hd_public::to_hd_key: the layout of the public key, the point as payload.
hd_public_to_hd_key(key) ==
    insert_checksum(
        to_big_endian(hd_public_to_prefix(key.lineage.prefixes))
            \o <<key.lineage.depth>>
            \o to_big_endian(key.lineage.parent_fingerprint)
            \o to_big_endian(key.lineage.child_number)
            \o key.chain
            \o key.point)

\* A compressed point starts with 2 or 3.
is_point(point) == point[1] \in {2, 3}

\* hd_public(public_key, prefix): validates the version and the point.
hd_public_from_key(key, prefix) ==
    LET actual == from_big_endian(slice(key, 0, 4))
        depth  == key[5]
        parent == from_big_endian(slice(key, 5, 9))
        child  == from_big_endian(slice(key, 9, 13))
        chain  == slice(key, 13, 13 + HashLen)
        point  == slice(key, 13 + HashLen, 14 + 2 * HashLen)
    IN  IF actual # prefix \/ ~is_point(point)
        THEN hd_public_default
        ELSE [valid |-> TRUE, chain |-> chain,
              lineage |-> hd_lineage(to_prefixes(zero_word, prefix), depth,
                                     parent, child),
              point |-> point]

\* to_public(): the base of the key, serialized and parsed as a public key.
to_public(key) ==
    hd_public_from_key(hd_public_to_hd_key(hd_public_of(key)),
                       hd_public_to_prefix(key.lineage.prefixes))

derive_public(key, index) == to_public(derive_private(key, index))

\* swap that exchanges the bases and leaves the secrets.
swap_bases(left, right) ==
    [left |-> with_secret(hd_public_of(right), left.secret),
     right |-> with_secret(hd_public_of(left), right.secret)]

\* swap(left, right): the bases, then the secrets.
swap(left, right) ==
    [left |-> with_secret(hd_public_of(right), right.secret),
     right |-> with_secret(hd_public_of(left), left.secret)]

\* ------------------------------------------------------------ the inputs

Prefixes == {hd_private_mainnet, hd_private_testnet}

PublicPrefixes == {hd_public_mainnet}

Versions == {to_prefix(p) : p \in Prefixes}

\* Child indexes: two normal ones, the first and the last hardened one.
Indexes == {Word(0, 0), Word(0, 1), Word(32768, 0), Word(65535, 65535)}

\* Scalars at the edges of the valid range, as secrets.
Secrets == {Bytes(n, HashLen) : n \in {0, 1, ec_order - 1, ec_order}}

\* A chain code under which derive_private meets both failures of ec_add.
ChainCodes == {Bytes(83, HashLen)}

\* Entropy whose keyed hash has a valid left half, and one whose has not.
Entropies == {<<2>>, <<48>>}

\* depth, parent fingerprint, child number of the keys on the wire.
master == <<0, zero_word, zero_word>>

Positions ==
    {master,
     <<max_uint8 - 1, Word(1, 2), Word(32768, 0)>>,
     <<max_uint8, Word(3, 4), Word(0, 1)>>}

\* The 78-byte layout: version | depth | parent | child | chain | pad | secret.
wire(version, position, chain, padding, secret) ==
    to_big_endian(version) \o <<position[1]>> \o to_big_endian(position[2])
        \o to_big_endian(position[3]) \o chain \o <<padding>> \o secret

Payloads ==
    {wire(v, p, c, 0, s) :
        v \in Versions, p \in Positions, c \in ChainCodes, s \in Secrets}

\* Master keys on the wire with the secret 1, one of them with a padding
\* byte that is not zero.
MasterPayloads ==
    {wire(v, master, c, 0, Bytes(1, HashLen)) :
        v \in Versions, c \in ChainCodes}
        \cup {wire(to_prefix(hd_private_mainnet), master, c, 1,
                   Bytes(1, HashLen)) : c \in ChainCodes}

\* A checksum that differs from the payload's in its last byte.
bad_checksum(payload) ==
    LET sum == bitcoin_checksum(payload)
    IN  [sum EXCEPT ![checksum_size] = (sum[checksum_size] + 1) % 256]

\* hd_key inputs: every payload with its checksum, and the master keys with
\* a wrong one too.
HdKeys ==
    {insert_checksum(p) : p \in Payloads \cup MasterPayloads}
        \cup {p \o bad_checksum(p) : p \in MasterPayloads}

\* Encoded inputs: a mainnet master key with its checksum and with a wrong
\* one, a key whose secret is zero, and text that is no key: empty, too
\* short, outside the alphabet.
TextPayloads ==
    {wire(to_prefix(hd_private_mainnet), master, c, 0, Bytes(n, HashLen)) :
        c \in ChainCodes, n \in {0, 1}}

Texts ==
    {encode_base58(insert_checksum(p)) : p \in TextPayloads}
        \cup {encode_base58(p \o bad_checksum(p)) :
                 p \in {wire(to_prefix(hd_private_mainnet), master, c, 0,
                             Bytes(1, HashLen)) : c \in ChainCodes}}
        \cup {<< >>, <<"x", "p", "r", "v">>, <<"0", "O", "I", "l">>}

\* The second object of an assignment or a swap: the default key, a master
\* key, and an invalid key that holds a secret outside the range.
Others ==
    {hd_private_default,
     from_entropy(<<2>>, hd_private_mainnet),
     hd_private_prefixes(Bytes(ec_order, HashLen), Bytes(83, HashLen),
                         hd_private_mainnet)}

\* ---------------------------------------------------------- the machine

VARIABLES
    this,      \* the hd_private object the operations act on
    last,      \* the last operation: name, inputs, exception, second object
    derived,   \* derive_private calls so far
    calls,     \* per concurrent caller: position, requested index, result
    frames     \* per activation of derive_private: its arguments and locals

vars == <<this, last, derived, calls, frames>>

none == << >>

\* other: the second object of the operation as the operation leaves it
\* (the parent of derive_private, swap's right), or none.
operation(op, input, prefixes, thrown, other) ==
    [op |-> op, input |-> input, prefixes |-> prefixes, thrown |-> thrown,
     other |-> other]

Callers == 1 .. NumCallers

\* A caller outside derive_private.
idle_call == [pc |-> "idle", index |-> zero_word, result |-> hd_private_default]

\* An activation before its locals are assigned.
empty_frame ==
    [index |-> zero_word,
     intermediate |-> split(Repeat(0, 2 * HashLen)),
     child |-> null_hash]

Init ==
    /\ this = hd_private_default
    /\ last = operation("hd_private", none, none, none, none)
    /\ derived = 0
    /\ calls = [c \in Callers |-> idle_call]
    /\ frames = [c \in Callers |-> empty_frame]

\* hd_private()
Construct ==
    /\ this' = hd_private_default
    /\ last' = operation("hd_private", none, none, none, none)
    /\ UNCHANGED <<derived, calls, frames>>

\* hd_private(entropy, prefixes)
FromEntropy ==
    \E entropy \in Entropies, prefixes \in Prefixes :
        /\ this' = from_entropy(entropy, prefixes)
        /\ last' = operation("from_entropy", entropy, prefixes, none, none)
        /\ UNCHANGED <<derived, calls, frames>>

\* hd_private(secret, chain_code, prefixes)
FromPrivate ==
    \E secret \in Secrets, chain \in ChainCodes, prefixes \in Prefixes :
        /\ this' = hd_private_prefixes(secret, chain, prefixes)
        /\ last' = operation("from_private", <<secret, chain>>, prefixes,
                             none, none)
        /\ UNCHANGED <<derived, calls, frames>>

\* hd_private(private_key, prefixes)
FromKey ==
    \E key \in HdKeys, prefixes \in Prefixes :
        /\ this' = from_key(key, prefixes)
        /\ last' = operation("from_key", key, prefixes, none, none)
        /\ UNCHANGED <<derived, calls, frames>>

\* hd_private(private_key, public_prefix), hd_private(private_key)
FromKeyPublic ==
    \E key \in HdKeys, public_prefix \in PublicPrefixes :
        /\ this' = from_key_public(key, public_prefix)
        /\ last' = operation("from_key_public", key, public_prefix, none,
                             none)
        /\ UNCHANGED <<derived, calls, frames>>

\* hd_private(encoded, prefixes)
FromString ==
    \E text \in Texts, prefixes \in Prefixes :
        /\ this' = from_string(text, prefixes)
        /\ last' = operation("from_string", text, prefixes, none, none)
        /\ UNCHANGED <<derived, calls, frames>>

\* hd_private(encoded, public_prefix), hd_private(encoded)
FromStringPublic ==
    \E text \in Texts, public_prefix \in PublicPrefixes :
        /\ this' = from_string_public(text, public_prefix)
        /\ last' = operation("from_string_public", text, public_prefix,
                             none, none)
        /\ UNCHANGED <<derived, calls, frames>>

\* operator>> that never throws.
stream_in_silent(value) ==
    [to |-> from_string_public(value, hd_public_mainnet), thrown |-> none]

\* in >> to: the key is assigned, then the exception is thrown if invalid.
stream_in(value) ==
    LET to == from_string_public(value, hd_public_mainnet)
    IN  [to |-> to, thrown |-> IF ~to.valid THEN <<value>> ELSE none]

StreamIn ==
    \E value \in Texts :
        LET read == stream_in(value)
        IN  /\ this' = read.to
            /\ last' = operation(">>", value, hd_public_mainnet, read.thrown,
                                 none)
            /\ UNCHANGED <<derived, calls, frames>>

\* out << of: the encoded key is written.
StreamOut ==
    /\ last' = operation("<<", encoded(this), none, none, none)
    /\ UNCHANGED <<this, derived, calls, frames>>

\* this = this.derive_private(index): the parent is kept as the second object.
DerivePrivate ==
    \E index \in Indexes :
        /\ derived < MaxDerive
        /\ this' = derive_private(this, index)
        /\ derived' = derived + 1
        /\ last' = operation("derive_private", index, none, none, this)
        /\ UNCHANGED <<calls, frames>>

\* this.to_public(): the public key is the second object.
ToPublic ==
    /\ last' = operation("to_public", none, none, none, to_public(this))
    /\ UNCHANGED <<this, derived, calls, frames>>

\* this.derive_public(index): the public child is the second object.
DerivePublic ==
    \E index \in Indexes :
        /\ last' = operation("derive_public", index, none, none,
                             derive_public(this, index))
        /\ UNCHANGED <<this, derived, calls, frames>>

\* this = value: operator= takes a copy and swaps it in.
assign(to, value) == swap(to, value).left

Assign ==
    \E value \in Others :
        /\ this' = assign(this, value)
        /\ last' = operation("=", value, none, none, none)
        /\ UNCHANGED <<derived, calls, frames>>

\* swap(this, right)
Swap ==
    \E right \in Others :
        /\ this' = swap(this, right).left
        /\ last' = operation("swap", right, none, none,
                             swap(this, right).right)
        /\ UNCHANGED <<derived, calls, frames>>

Next ==
    \/ Construct
    \/ FromEntropy
    \/ FromPrivate
    \/ FromKey
    \/ FromKeyPublic
    \/ FromString
    \/ FromStringPublic
    \/ StreamIn
    \/ StreamOut
    \/ DerivePrivate
    \/ ToPublic
    \/ DerivePublic
    \/ Assign
    \/ Swap

Spec == Init /\ [][Next]_vars

\* ------------------------------------- derive_private by concurrent callers

\* The parents the callers share: the default key, a master key, keys at the
\* last depths, and a key under which the sum of derive_private fails.
Parents ==
    {hd_private_default,
     from_entropy(<<2>>, hd_private_mainnet),
     hd_private_prefixes(Bytes(1, HashLen), Bytes(83, HashLen),
                         hd_private_testnet)}
        \cup {from_key(insert_checksum(
                           wire(to_prefix(hd_private_mainnet), p,
                                Bytes(83, HashLen), 0,
                                Bytes(ec_order - 1, HashLen))),
                       hd_private_mainnet) : p \in Positions \ {master}}

\* derive_private with its locals in static storage: one frame for all calls.
frame_static(caller) == 1

\* The locals of derive_private have automatic storage: a frame per call.
frame(caller) == caller

\* The callers share the parent; last.other keeps the parent as it was.
InitDerive ==
    /\ this \in Parents
    /\ last = operation("parent", none, none, none, this)
    /\ derived = 0
    /\ calls = [c \in Callers |-> idle_call]
    /\ frames = [c \in Callers |-> empty_frame]

\* The call: the index is passed by value.
Call(caller) ==
    \E index \in Indexes :
        /\ calls[caller].pc = "idle"
        /\ calls' = [calls EXCEPT ![caller] =
                         [pc |-> "hash", index |-> index,
                          result |-> hd_private_default]]
        /\ frames' = [frames EXCEPT ![frame(caller)].index = index]
        /\ UNCHANGED <<this, last, derived>>

\* data and intermediate: reads the parent's secret, point and chain code.
Hash(caller) ==
    /\ calls[caller].pc = "hash"
    /\ frames' = [frames EXCEPT ![frame(caller)].intermediate =
                      derive_intermediate(this, frames[frame(caller)].index)]
    /\ calls' = [calls EXCEPT ![caller].pc = "add"]
    /\ UNCHANGED <<this, last, derived>>

\* child = secret_; ec_add(child, intermediate.first), or return {}.
Add(caller) ==
    LET child == derive_child(this, frames[frame(caller)].intermediate)
    IN  /\ calls[caller].pc = "add"
        /\ IF child.ok
           THEN /\ frames' = [frames EXCEPT ![frame(caller)].child =
                                 child.value]
                /\ calls' = [calls EXCEPT ![caller].pc = "lineage"]
           ELSE /\ frames' = [frames EXCEPT ![frame(caller)] = empty_frame]
                /\ calls' = [calls EXCEPT ![caller].pc = "done",
                                          ![caller].result =
                                              hd_private_default]
        /\ UNCHANGED <<this, last, derived>>

\* The check of the depth, the lineage and the child key returned.
Lineage(caller) ==
    LET locals == frames[frame(caller)]
    IN  /\ calls[caller].pc = "lineage"
        /\ calls' = [calls EXCEPT ![caller].pc = "done",
                                  ![caller].result =
                                      derive_lineage(this, locals.index,
                                                     locals.intermediate,
                                                     locals.child)]
        /\ frames' = [frames EXCEPT ![frame(caller)] = empty_frame]
        /\ UNCHANGED <<this, last, derived>>

\* The caller drops the result and is free to derive again.
Return(caller) ==
    /\ calls[caller].pc = "done"
    /\ calls' = [calls EXCEPT ![caller] = idle_call]
    /\ UNCHANGED <<this, last, derived, frames>>

NextDerive ==
    \/ \E caller \in Callers : Call(caller)
    \/ \E caller \in Callers : Hash(caller)
    \/ \E caller \in Callers : Add(caller)
    \/ \E caller \in Callers : Lineage(caller)
    \/ \E caller \in Callers : Return(caller)

SpecDerive == InitDerive /\ [][NextDerive]_vars

\* ------------------------------------------------------------ the claims

\* The fields of a key on the wire, as the claims name them.
wire_version(key) == from_big_endian(slice(key, 0, 4))

wire_padding(key) == key[14 + HashLen]

wire_secret(key) == slice(key, 14 + HashLen, 14 + 2 * HashLen)

checksum_consistent(key) ==
    slice(key, hd_key_size - checksum_size, hd_key_size)
        = bitcoin_checksum(slice(key, 0, hd_key_size - checksum_size))

\* The fixed layout with the zero padding byte, a consistent checksum and
\* the private version of the prefixes.
conforms(key, prefixes) ==
    /\ Len(key) = hd_key_size
    /\ wire_padding(key) = 0
    /\ checksum_consistent(key)
    /\ wire_version(key) = to_prefix(prefixes)

\* C1 as stated: every conforming key on the wire, parsed with from_key and
\* serialized with to_hd_key, comes back byte for byte.
C1_RoundTripAnySecret ==
    (last.op = "from_key" /\ conforms(last.input, last.prefixes))
        => to_hd_key(this) = last.input

\* C1 amended: a conforming key on the wire whose secret is a valid scalar,
\* 0 < secret < n, comes back from to_hd_key(from_key(b, prefixes)) byte for
\* byte.
C1_RoundTrip ==
    (/\ last.op = "from_key"
     /\ conforms(last.input, last.prefixes)
     /\ verify(wire_secret(last.input)))
        => to_hd_key(this) = last.input

C1_Witness ==
    /\ last.op = "from_key"
    /\ conforms(last.input, last.prefixes)
    /\ verify(wire_secret(last.input))
    /\ this.valid
    /\ this.lineage.depth = max_uint8 - 1
    /\ this.lineage.parent_fingerprint # this.lineage.child_number
    /\ to_hd_key(this) = last.input

\* The key that a text decodes to, when it decodes to a key.
decoded(text) == decode_base58(text, hd_key_size)

\* C2 as stated: a text that decodes to a key whose checksum does not match
\* its payload parses, with from_string of either overload, to an invalid
\* key.
C2_ChecksumRejected ==
    (/\ last.op \in {"from_string", "from_string_public"}
     /\ decoded(last.input).ok
     /\ ~checksum_consistent(decoded(last.input).data))
        => ~this.valid

\* The private version that goes with a public version.
expected_private(public_prefix) ==
    to_prefix(CHOOSE p \in Prefixes : p[2] = public_prefix)

\* The key on the wire that the last parse read, if any.
parsed_key ==
    IF last.op \in {"from_key", "from_key_public"}
    THEN [ok |-> TRUE, data |-> last.input]
    ELSE IF last.op \in {"from_string", "from_string_public", ">>"}
    THEN decoded(last.input)
    ELSE [ok |-> FALSE, data |-> << >>]

\* C3 as stated: at every parse entry point a key whose version is not the
\* expected private version is invalid.
C3_VersionValidatedEverywhere ==
    parsed_key.ok =>
        LET expected ==
                IF last.op \in {"from_key", "from_string"}
                THEN to_prefix(last.prefixes)
                ELSE expected_private(last.prefixes)
        IN  wire_version(parsed_key.data) # expected => ~this.valid

\* C3 amended: at the entry points that take a prefixes pair (from_key and
\* from_string with prefixes), a key whose version is not the private version
\* of the pair is invalid.
C3_VersionValidated ==
    (/\ last.op \in {"from_key", "from_string"}
     /\ parsed_key.ok
     /\ wire_version(parsed_key.data) # to_prefix(last.prefixes))
        => ~this.valid

C3_Witness ==
    /\ last.op = "from_key"
    /\ wire_version(last.input) # to_prefix(last.prefixes)
    /\ wire_version(last.input) \in Versions
    /\ verify(wire_secret(last.input))
    /\ checksum_consistent(last.input)
    /\ ~this.valid

\* The hd_private objects of the state: this, and the second object of the
\* last operation when it was a private key.
objects ==
    {this} \cup (IF last.op \in {"derive_private", "swap"}
                 THEN {last.other}
                 ELSE {})

\* C4: every object that reports itself valid, after any sequence of
\* constructions, derivations, assignments and swaps, holds a secret with
\* 0 < secret < n (a step that produces a secret outside the range leaves an
\* invalid object).
C4_ValidSecretInRange ==
    \A k \in objects :
        k.valid => Num(k.secret) > 0 /\ Num(k.secret) < ec_order

C4_Witness ==
    /\ last.op = "swap"
    /\ this.valid
    /\ last.other # none
    /\ last.other.valid
    /\ last.other.lineage.depth = 1
    /\ last.other.lineage.prefixes \in Prefixes

\* C5 as stated: a valid parent below depth 255 always gets a child one
\* deeper; at depth 255 the derivation is invalid.
C5_DepthAlwaysNext ==
    last.op = "derive_private" =>
        LET parent == last.other
        IN  /\ (parent.valid /\ parent.lineage.depth < 255)
                => this.lineage.depth = parent.lineage.depth + 1
            /\ (parent.valid /\ parent.lineage.depth = 255) => ~this.valid

\* C5 amended: a valid parent below depth 255 gets a child that is invalid
\* (ec_add failed) or one deeper than the parent; at depth 255 the derivation
\* is invalid, so no valid child has a depth that wrapped.
C5_DepthMonotone ==
    last.op = "derive_private" =>
        LET parent == last.other
        IN  /\ (parent.valid /\ parent.lineage.depth < 255 /\ this.valid)
                => this.lineage.depth = parent.lineage.depth + 1
            /\ (parent.valid /\ parent.lineage.depth = 255) => ~this.valid

C5_Witness ==
    /\ last.op = "derive_private"
    /\ last.other.valid
    /\ last.other.lineage.depth = 254
    /\ this.valid
    /\ this.lineage.depth = 255

\* C6 as stated: a key derived from an invalid key is invalid.
C6_InvalidityInfectious ==
    (last.op = "derive_private" /\ ~last.other.valid) => ~this.valid

\* C7: from_entropy takes the keyed hash of the entropy under "Bitcoin seed",
\* its left half as the secret and its right half as the chain code, at the
\* lineage {prefixes, 0, 0, 0}; it is the invalid key when the left half is
\* no valid scalar.
C7_MasterKey ==
    last.op = "from_entropy" =>
        LET hash == hmac_sha512_hash(
                        last.input,
                        <<66, 105, 116, 99, 111, 105, 110, 32,
                          115, 101, 101, 100>>)
            IL == SubSeq(hash, 1, HashLen)
            IR == SubSeq(hash, HashLen + 1, 2 * HashLen)
        IN  IF Num(IL) > 0 /\ Num(IL) < ec_order
            THEN /\ this.valid
                 /\ this.secret = IL
                 /\ this.chain = IR
                 /\ this.lineage.prefixes = last.prefixes
                 /\ this.lineage.depth = 0
                 /\ this.lineage.parent_fingerprint = zero_word
                 /\ this.lineage.child_number = zero_word
            ELSE ~this.valid

C7_Witness ==
    /\ last.op = "from_entropy"
    /\ this.valid
    /\ this.secret # this.chain
    /\ this.lineage.prefixes = hd_private_testnet

\* The child number as to_hd_key serializes it, and its top bit.
serialized_child(key) == slice(to_hd_key(key), 9, 13)

top_bit_set(word_bytes) == word_bytes[1] >= 128

\* C8 as stated: for every parent and index the serialized child number of
\* the derived key has its top bit set iff the index is hardened.
C8_HardenedFlagAlways ==
    last.op = "derive_private" =>
        (top_bit_set(serialized_child(this)) <=> last.input.hi >= 32768)

\* C8 amended: when the derived key is valid its serialized child number is
\* the requested index, top bit set iff the index is hardened.
C8_HardenedFlag ==
    (last.op = "derive_private" /\ this.valid) =>
        /\ top_bit_set(serialized_child(this)) <=> last.input.hi >= 32768
        /\ serialized_child(this) = to_big_endian(last.input)

C8_Witness ==
    /\ last.op = "derive_private"
    /\ last.other.valid
    /\ this.valid
    /\ last.input.hi >= 32768
    /\ top_bit_set(serialized_child(this))

\* C9: operator>> throws the text it read exactly when the key it assigned
\* is invalid; no other operation throws.
C9_OnlyStreamInThrows ==
    /\ last.op = ">>" =>
           IF this.valid
           THEN last.thrown = none
           ELSE last.thrown = <<last.input>>
    /\ last.op # ">>" => last.thrown = none

C9_Witness ==
    /\ last.op = ">>"
    /\ decoded(last.input).ok
    /\ ~this.valid
    /\ last.thrown = <<last.input>>

\* The callers that have a result in hand.
finished == {c \in Callers : calls[c].pc = "done"}

\* C10: derive_private leaves the parent as it was, and under every
\* interleaving of the concurrent callers each result is the key that
\* derive_private yields for the parent and the requested index alone, so
\* two callers of the same index hold bit-identical keys.
C10_OrderIndependent ==
    /\ this = last.other
    /\ \A c \in finished :
           calls[c].result = derive_private(last.other, calls[c].index)
    /\ \A c, d \in finished :
           calls[c].index = calls[d].index
               => calls[c].result = calls[d].result

\* Two callers have derived valid children of different indexes from a valid
\* parent while a frame of one of them was live during the other's call.
C10_Witness ==
    \E c, d \in Callers :
        /\ c # d
        /\ this.valid
        /\ calls[c].pc = "done"
        /\ calls[c].result.valid
        /\ calls[d].pc = "lineage"
        /\ calls[d].index # calls[c].index
        /\ frames[frame(d)].child # calls[c].result.secret

\* The halves IL and IR of the keyed hash that C11 names: of 0x00, the
\* parent's secret and the index when the index is 2^31 or more, of the
\* parent's point and the index otherwise, under the parent's chain code.
child_hash(parent, index) ==
    LET be32 == <<index.hi \div 256, index.hi % 256,
                  index.lo \div 256, index.lo % 256>>
        data == IF index.hi >= 32768
                THEN <<0>> \o parent.secret \o be32
                ELSE parent.point \o be32
        hash == hmac_sha512_hash(data, parent.chain)
    IN  [IL |-> SubSeq(hash, 1, HashLen),
         IR |-> SubSeq(hash, HashLen + 1, 2 * HashLen)]

\* C11: the child of derive_private(p, i), when valid, has the secret
\* (IL + p.secret) mod n and the chain code IR, IL and IR being the halves
\* of the keyed hash of the hardened or the normal data; the result is
\* invalid when IL >= n or when the child secret is 0.
C11_ChildSecret ==
    last.op = "derive_private" =>
        LET parent == last.other
            halves == child_hash(parent, last.input)
            sum == (Num(halves.IL) + Num(parent.secret)) % ec_order
        IN  /\ this.valid =>
                   /\ Num(this.secret) = sum
                   /\ this.chain = halves.IR
            /\ (Num(halves.IL) >= ec_order \/ sum = 0) => ~this.valid

\* A hardened child of a valid parent whose sum wrapped around the order.
C11_Witness ==
    /\ last.op = "derive_private"
    /\ last.other.valid
    /\ last.input.hi >= 32768
    /\ this.valid
    /\ this.chain # null_hash
    /\ Num(child_hash(last.other, last.input).IL) + Num(last.other.secret)
           >= ec_order

====
